---------------------------- MODULE Spec2Model ----------------------------
(***************************************************************************)
(* A model of upload_results.py: one run of the script, from the import of *)
(* config.py to the e-mail.  Text is modelled as sequences of one-character *)
(* strings so that startswith, strip, split and find are computed as the   *)
(* code computes them.                                                     *)
(***************************************************************************)
EXTENDS Integers, Sequences, FiniteSets, TLC

(***************************************************************************)
(* Bounds of the model                                                     *)
(***************************************************************************)
\* longest results.csv made of arbitrary lines
MaxLines == 3
\* most benchmark rows of a well-formed results.csv
MaxRows == 2
\* most gists returned by Gist.list
MaxGists == 2

(***************************************************************************)
(* String literals of the program                                          *)
(***************************************************************************)
HeaderPrefix == <<"n","a","m","e",",","i","t","e","r","a","t","i","o","n","s",",","r","e","a","l","_","t","i","m","e",",","c","p","u","_","t","i","m","e">>
DatePrefix == <<"2","0">>
MASTER == <<"m","a","s","t","e","r">>
S_cpu_time == <<"c","p","u","_","t","i","m","e">>
S_time_unit == <<"t","i","m","e","_","u","n","i","t">>
S_difference_master == <<"d","i","f","f","e","r","e","n","c","e","_","m","a","s","t","e","r">>

(***************************************************************************)
(* Lines a results.csv is made of                                          *)
(***************************************************************************)
DateLine == <<"2","0","2","4","-","0","3","-","0","1"," ","1","2",":","0","0",":","0","0","\n">>
BadDateLine == <<"2","0","x","x","\n">>
CpuLine == <<"c","p","u","\n">>
HeaderLine == <<"n","a","m","e",",","i","t","e","r","a","t","i","o","n","s",",","r","e","a","l","_","t","i","m","e",",","c","p","u","_","t","i","m","e",",","t","i","m","e","_","u","n","i","t","\n">>
HeaderLikeLine == <<"n","a","m","e",",","i","t","e","r","a","t","i","o","n","s",",","r","e","a","l","_","t","i","m","e",",","c","p","u","_","t","i","m","e","s","\n">>
RowA1 == <<"a","_","b",",","1",",","1",",","1","2","0",",","n","s","\n">>
RowA2 == <<"a","_","b",",","1",",","1",",","1","0","0",",","n","s","\n">>
RowC == <<"_","c",",","1",",","1",",","1","0","0",",","n","s","\n">>
RowZ == <<"z","z",",","1",",","1",",","5","0",",","n","s","\n">>

(***************************************************************************)
(* str methods                                                             *)
(***************************************************************************)
Digits == <<"0","1","2","3","4","5","6","7","8","9">>
IsDigit(c) == \E i \in 1..10 : Digits[i] = c
DigitVal(c) == (CHOOSE i \in 1..10 : Digits[i] = c) - 1
IsSpace(c) == c \in {" ", "\n", "\t", "\r"}

\* s.startswith(p)
StartsWith(s, p) == Len(s) >= Len(p) /\ SubSeq(s, 1, Len(p)) = p

RECURSIVE LStrip(_)
LStrip(s) == IF s # <<>> /\ IsSpace(Head(s)) THEN LStrip(Tail(s)) ELSE s
RECURSIVE RStrip(_)
RStrip(s) == IF s # <<>> /\ IsSpace(s[Len(s)]) THEN RStrip(SubSeq(s, 1, Len(s) - 1)) ELSE s
\* s.strip()
Strip(s) == RStrip(LStrip(s))

\* s.find(c): the 0-based index of the first c, -1 when there is none
RECURSIVE FindFrom(_, _, _)
FindFrom(s, c, i) ==
    IF i > Len(s) THEN -1
    ELSE IF s[i] = c THEN i - 1
    ELSE FindFrom(s, c, i + 1)
Find(s, c) == FindFrom(s, c, 1)

\* s.split(c)
RECURSIVE Split(_, _)
Split(s, c) ==
    LET i == Find(s, c)
    IN  IF i = -1 THEN <<s>>
        ELSE <<SubSeq(s, 1, i)>> \o Split(SubSeq(s, i + 2, Len(s)), c)

\* the concatenation of a sequence of strings
RECURSIVE Concat(_)
Concat(ls) == IF ls = <<>> THEN <<>> ELSE Head(ls) \o Concat(Tail(ls))

\* the value of a string of decimal digits
RECURSIVE DecVal(_)
DecVal(s) == IF s = <<>> THEN 0 ELSE 10 * DecVal(SubSeq(s, 1, Len(s) - 1)) + DigitVal(s[Len(s)])
IsNumeral(s) == s # <<>> /\ \A i \in 1..Len(s) : IsDigit(s[i])

(***************************************************************************)
(* datetime.strptime(s, '%Y-%m-%d %H:%M:%S') and datetime.timestamp()      *)
(***************************************************************************)
RECURSIVE DigitRun(_, _)
\* how many digits s holds from position i on
DigitRun(s, i) == IF i <= Len(s) /\ IsDigit(s[i]) THEN 1 + DigitRun(s, i + 1) ELSE 0
RECURSIVE SpaceRun(_, _)
SpaceRun(s, i) == IF i <= Len(s) /\ IsSpace(s[i]) THEN 1 + SpaceRun(s, i + 1) ELSE 0

\* a numeric directive at position i: lenLo..lenHi digits with a value in lo..hi
Directive(s, i, lenLo, lenHi, lo, hi) ==
    LET n == DigitRun(s, i)
        v == DecVal(SubSeq(s, i, i + n - 1))
    IN  [ok |-> n >= lenLo /\ n <= lenHi /\ v >= lo /\ v <= hi, val |-> v, next |-> i + n]

\* a literal character of the format at position i
Literal(s, i, c) == i <= Len(s) /\ s[i] = c

IsLeap(y) == (y % 4 = 0 /\ y % 100 # 0) \/ y % 400 = 0
DaysInMonth(y, m) ==
    IF m = 2 THEN (IF IsLeap(y) THEN 29 ELSE 28)
    ELSE IF m \in {4, 6, 9, 11} THEN 30 ELSE 31

NoDate == <<>>
\* the datetime of s, NoDate when strptime raises ValueError
Strptime(s) ==
    LET Y  == Directive(s, 1, 4, 4, 0, 9999)
        Mo == Directive(s, Y.next + 1, 1, 2, 1, 12)
        D  == Directive(s, Mo.next + 1, 1, 2, 1, 31)
        sp == SpaceRun(s, D.next)
        H  == Directive(s, D.next + sp, 1, 2, 0, 23)
        Mi == Directive(s, H.next + 1, 1, 2, 0, 59)
        S  == Directive(s, Mi.next + 1, 1, 2, 0, 59)
        ok == /\ Y.ok /\ Y.val >= 1 /\ Literal(s, Y.next, "-")
              /\ Mo.ok /\ Literal(s, Mo.next, "-")
              /\ D.ok /\ D.val <= DaysInMonth(Y.val, Mo.val)
              /\ sp >= 1
              /\ H.ok /\ Literal(s, H.next, ":")
              /\ Mi.ok /\ Literal(s, Mi.next, ":")
              /\ S.ok /\ S.next = Len(s) + 1
    IN  IF ok THEN <<Y.val, Mo.val, D.val, H.val, Mi.val, S.val>> ELSE NoDate

\* days from 1970-01-01 to the civil date y-m-d
DaysFromCivil(y, m, d) ==
    LET yy  == IF m <= 2 THEN y - 1 ELSE y
        era == yy \div 400
        yoe == yy - era * 400
        mp  == (m + 9) % 12
        doy == (153 * mp + 2) \div 5 + d - 1
        doe == yoe * 365 + yoe \div 4 - yoe \div 100 + doy
    IN  era * 146097 + doe - 719468

\* benchdate.timestamp(), the local time zone taken to be UTC
Timestamp(dt) ==
    DaysFromCivil(dt[1], dt[2], dt[3]) * 86400 + dt[4] * 3600 + dt[5] * 60 + dt[6]

(***************************************************************************)
(* pandas: cells, read_csv, duplicated, arithmetic, to_csv                 *)
(* A frame is [columns, rows]; a row is [name, vals], vals aligned with    *)
(* columns; name is the value of the index column (index_col=0).           *)
(***************************************************************************)
NaN == [k |-> "nan", n |-> 0, d |-> 1, s |-> <<>>]
Num(n, d) == [k |-> "num", n |-> n, d |-> d, s |-> <<>>]
Inf(sign) == [k |-> "inf", n |-> sign, d |-> 0, s |-> <<>>]
Str(s) == [k |-> "str", n |-> 0, d |-> 1, s |-> s]

\* the value read_csv gives a field: empty is NaN, a numeral a number, else text
ParseCell(f) ==
    IF f = <<>> THEN NaN ELSE IF IsNumeral(f) THEN Num(DecVal(f), 1) ELSE Str(f)

RECURSIVE SelectLines(_)
\* the non-blank lines of the pieces of text.split('\n') (skip_blank_lines)
SelectLines(ps) ==
    IF ps = <<>> THEN <<>>
    ELSE IF Head(ps) = <<>> THEN SelectLines(Tail(ps))
    ELSE <<Head(ps)>> \o SelectLines(Tail(ps))

NoFrame == [columns |-> <<>>, rows |-> <<>>, index_name |-> <<>>, ok |-> FALSE]

\* pd.read_csv(StringIO(text), index_col=0); ok is FALSE when it raises
\* (EmptyDataError on an empty text, ParserError on a row longer than the header)
ReadCsv(text) ==
    LET ls  == SelectLines(Split(text, "\n"))
        fs  == [i \in 1..Len(ls) |-> Split(ls[i], ",")] \o <<>>
        w   == IF ls = <<>> THEN 0 ELSE Len(fs[1])
        bad == ls = <<>> \/ \E i \in 2..Len(ls) : Len(fs[i]) > w
        Row(f) == [name |-> f[1],
                   vals |-> [j \in 1..(w - 1) |->
                               IF j + 1 <= Len(f) THEN ParseCell(f[j + 1]) ELSE NaN] \o <<>>]
    IN  IF bad THEN NoFrame
        ELSE [columns |-> Tail(fs[1]),
              rows |-> [i \in 1..(Len(ls) - 1) |-> Row(fs[i + 1])] \o <<>>,
              index_name |-> fs[1][1],
              ok |-> TRUE]

\* list.index(x), 0 when x is not in the list (ValueError / KeyError)
ColIndex(cols, c) ==
    IF \E i \in 1..Len(cols) : cols[i] = c
    THEN CHOOSE i \in 1..Len(cols) : cols[i] = c /\ \A j \in 1..(i - 1) : cols[j] # c
    ELSE 0
HasCol(df, c) == ColIndex(df.columns, c) # 0
\* df[c] of row r
Cell(df, r, c) == r.vals[ColIndex(df.columns, c)]
\* the column has a numeric dtype: no cell of it was read as text
IsNumericCol(df, c) == \A i \in 1..Len(df.rows) : Cell(df, df.rows[i], c).k # "str"
\* the column was read as int64: every cell a whole number
IsIntCol(df, c) ==
    \A i \in 1..Len(df.rows) :
        Cell(df, df.rows[i], c).k = "num" /\ Cell(df, df.rows[i], c).d = 1

Keys(df) == [i \in 1..Len(df.rows) |-> df.rows[i].name]
HasKey(df, key) == \E i \in 1..Len(df.rows) : df.rows[i].name = key
\* the first row of df with this key
RowOf(df, key) ==
    df.rows[CHOOSE i \in 1..Len(df.rows) :
                df.rows[i].name = key /\ \A j \in 1..(i - 1) : df.rows[j].name # key]

\* index.duplicated(keep='first'): row i repeats the key of an earlier row
Duplicated(df) ==
    [i \in 1..Len(df.rows) |-> \E j \in 1..(i - 1) : df.rows[j].name = df.rows[i].name]

RECURSIVE SelectRows(_, _)
\* rows[mask]
SelectRows(rows, mask) ==
    IF rows = <<>> THEN <<>>
    ELSE (IF Head(mask) THEN <<Head(rows)>> ELSE <<>>) \o SelectRows(Tail(rows), Tail(mask))

\* df[~duplicates]
DropDuplicates(df) ==
    LET dup == Duplicated(df)
    IN  [df EXCEPT !.rows = SelectRows(df.rows, [i \in 1..Len(df.rows) |-> ~dup[i]])]
\* df.index[duplicates]
DuplicateKeys(df) ==
    LET dup == Duplicated(df)
        rs  == SelectRows(df.rows, dup)
    IN  [i \in 1..Len(rs) |-> rs[i].name]

Abs(x) == IF x < 0 THEN -x ELSE x
RECURSIVE Gcd(_, _)
Gcd(a, b) == IF b = 0 THEN a ELSE Gcd(b, a % b)

\* a fraction in lowest terms with a positive denominator
Frac(n, d) ==
    LET g == Gcd(Abs(n), Abs(d))
        sg == IF d < 0 THEN -1 ELSE 1
    IN  Num(sg * (n \div g), sg * (d \div g))

\* x - y on floats
Sub(x, y) ==
    IF x.k = "nan" \/ y.k = "nan" THEN NaN
    ELSE Frac(x.n * y.d - y.n * x.d, x.d * y.d)

\* x / y on floats: a division by zero is inf, -inf or nan, never an error
Div(x, y) ==
    IF x.k = "nan" \/ y.k = "nan" THEN NaN
    ELSE IF y.n = 0 THEN (IF x.n = 0 THEN NaN ELSE Inf(IF x.n > 0 THEN 1 ELSE -1))
    ELSE Frac(x.n * y.d, x.d * y.n)

\* the change taken relative to the current cpu_time
PercChangeOfCurrent(cur, last, key) ==
    IF HasKey(last, key)
    THEN LET c == Cell(cur, RowOf(cur, key), S_cpu_time)
             b == Cell(last, RowOf(last, key), S_cpu_time)
         IN  Div(Sub(c, b), c)
    ELSE NaN

\* (current.cpu_time - last.cpu_time) / last.cpu_time of one key of current,
\* aligned on the index: NaN for a key the baseline does not have
PercChange(cur, last, key) ==
    IF HasKey(last, key)
    THEN LET c == Cell(cur, RowOf(cur, key), S_cpu_time)
             b == Cell(last, RowOf(last, key), S_cpu_time)
         IN  Div(Sub(c, b), b)
    ELSE NaN

\* df_current_results['difference_master'] = perc_change
\* (the assignment reindexes perc_change to the rows of df_current_results)
AddDifference(cur, last) ==
    [cur EXCEPT
        !.columns = Append(cur.columns, S_difference_master),
        !.rows = [i \in 1..Len(cur.rows) |->
                    [cur.rows[i] EXCEPT
                        !.vals = Append(@, PercChange(cur, last, cur.rows[i].name))]] \o <<>>]

RECURSIVE Remove(_, _)
\* list.remove(x): the list without its first x
Remove(l, x) ==
    IF l = <<>> THEN <<>>
    ELSE IF Head(l) = x THEN Tail(l)
    ELSE <<Head(l)>> \o Remove(Tail(l), x)

\* headers.insert(i, x)
Insert(l, i, x) == SubSeq(l, 1, i) \o <<x>> \o SubSeq(l, i + 1, Len(l))

\* df[headers]
SelectColumns(df, headers) ==
    [df EXCEPT
        !.columns = headers,
        !.rows = [i \in 1..Len(df.rows) |->
                    [df.rows[i] EXCEPT
                        !.vals = [j \in 1..Len(headers) |->
                                    Cell(df, df.rows[i], headers[j])] \o <<>>]] \o <<>>]

\* difference_master moved right behind time_unit
PlaceDifference(df) ==
    LET h == Remove(df.columns, S_difference_master)
    IN  SelectColumns(df, Insert(h, ColIndex(h, S_time_unit), S_difference_master))

RECURSIVE IntStr(_)
\* str(n) of a natural number
IntStr(n) == IF n < 10 THEN <<Digits[n + 1]>> ELSE IntStr(n \div 10) \o <<Digits[(n % 10) + 1]>>

\* '%.3f' % x, a tie rounded to the even thousandth
Fmt3(x) ==
    LET a == Abs(x.n) * 1000
        q == a \div x.d
        r == a - q * x.d
        t == IF 2 * r > x.d \/ (2 * r = x.d /\ q % 2 = 1) THEN q + 1 ELSE q
        f == t % 1000
    IN  (IF x.n < 0 THEN <<"-">> ELSE <<>>) \o IntStr(t \div 1000) \o <<".">>
        \o <<Digits[(f \div 100) + 1], Digits[((f \div 10) % 10) + 1], Digits[(f % 10) + 1]>>

\* one field of to_csv(float_format='%.3f'): float_format applies to float columns
CsvField(x, isInt) ==
    CASE x.k = "nan" -> <<>>
      [] x.k = "str" -> x.s
      [] x.k = "inf" -> (IF x.n < 0 THEN <<"-">> ELSE <<>>) \o <<"i","n","f">>
      [] OTHER -> IF isInt THEN IntStr(x.n) ELSE Fmt3(x)

RECURSIVE Join(_, _)
\* sep.join(fields)
Join(fs, sep) ==
    IF fs = <<>> THEN <<>>
    ELSE IF Len(fs) = 1 THEN fs[1]
    ELSE fs[1] \o <<sep>> \o Join(Tail(fs), sep)

\* df.to_csv(float_format='%.3f')
ToCsv(df) ==
    LET head == Join(<<df.index_name>> \o df.columns, ",") \o <<"\n">>
        ints == [j \in 1..Len(df.columns) |-> IsIntCol(df, df.columns[j])] \o <<>>
        Line(r) == Join(<<r.name>> \o
                        [j \in 1..Len(df.columns) |-> CsvField(r.vals[j], ints[j])],
                        ",") \o <<"\n">>
    IN  head \o Concat([i \in 1..Len(df.rows) |-> Line(df.rows[i])])

(***************************************************************************)
(* The environment of one run                                              *)
(***************************************************************************)
RECURSIVE SeqsUpTo(_, _)
\* the sequences over S of length at most n
SeqsUpTo(S, n) ==
    IF n = 0 THEN {<<>>}
    ELSE LET shorter == SeqsUpTo(S, n - 1)
         IN  shorter \cup {Append(q, x) : q \in shorter, x \in S}

\* config.py: the names it defines, each with its value
SettingNames == {"GRAPHITE_SERVER", "GIST_USER", "GIST_API_TOKEN", "MAIL_SENDER",
                 "MAIL_RECEIVER", "SMTP_SERVER", "SMTP_PASSWORD", "HOSTNAME"}
\* the settings the usage message and the mail and gist code call for
RequiredSettings == {"GIST_USER", "GIST_API_TOKEN", "MAIL_SENDER",
                     "MAIL_RECEIVER", "SMTP_SERVER", "SMTP_PASSWORD"}
FullConfig == [n \in SettingNames |-> IF n = "HOSTNAME" THEN <<"h">> ELSE <<"v">>]
Without(cfg, n) == [m \in (DOMAIN cfg) \ {n} |-> cfg[m]]
NoConfig == [n \in {} |-> <<>>]
Configs ==
    {FullConfig, NoConfig,
     [FullConfig EXCEPT !["GRAPHITE_SERVER"] = <<>>],
     [FullConfig EXCEPT !["GIST_API_TOKEN"] = <<>>]}
    \cup {Without(FullConfig, n) : n \in {"GIST_USER", "GIST_API_TOKEN", "MAIL_SENDER", "SMTP_PASSWORD"}}

\* results.csv: any short sequence of lines, or a line of metadata, the header
\* and rows
FileLines == {CpuLine, DateLine, HeaderLine, HeaderLikeLine}
MetaLines == {DateLine, CpuLine, BadDateLine}
BenchRows == {RowA1, RowA2, RowC}
Files ==
    SeqsUpTo(FileLines, MaxLines)
    \cup {<<m, HeaderLine>> \o rs : m \in MetaLines, rs \in SeqsUpTo(BenchRows, MaxRows)}

\* git rev-parse --abbrev-ref HEAD
Branches == {MASTER, <<"d","e","v">>}

\* the gists of the user: descriptions, the id of a gist being its place
GistDescriptions == {<<"h","_","m","a","s","t","e","r">>, <<"h","_","d","e","v","e","l">>}
Listings ==
    {[i \in 1..Len(ds) |-> [id |-> i, description |-> ds[i]]] :
        ds \in SeqsUpTo(GistDescriptions, MaxGists)}
NoGist == [id |-> 0, description |-> <<>>]

\* bench_results.csv of the baseline gist: a table (with a key current never
\* has), a table with a repeated key, and an empty file
BaselineTexts ==
    {HeaderLine \o RowA2 \o RowZ,
     HeaderLine \o RowA2 \o RowA1,
     <<>>}

\* status codes of the responses to POST /gists and PATCH /gists/{id}
Statuses == {200, 201, 302, 404}

(***************************************************************************)
(* The state of the run                                                    *)
(***************************************************************************)
VARIABLES
    pc,                 \* the place of the run in the script
    error,              \* the exception that ended the run, "" while there is none
    config,             \* the names config.py defines
    results_csv,        \* the lines of results.csv
    lineno,             \* how many lines the for loop has read
    cpy,
    bench_results,
    add_meta_data,
    benchdate,          \* NoDate while the name is unbound
    meta_data,
    description,
    all_gists,
    master_gist,        \* NoGist is None
    last_results,       \* bench_results.csv of the gist of the master branch
    df_current_results, \* NoFrame while the name is unbound
    http,               \* the requests made to the gist API
    graphite,           \* the connections and sends made to the Graphite server
    smtp,               \* the SMTP sessions opened
    stdout              \* the messages printed

vars == <<pc, error, config, results_csv, lineno, cpy, bench_results, add_meta_data,
          benchdate, meta_data, description, all_gists, master_gist, last_results,
          df_current_results, http, graphite, smtp, stdout>>

parse_vars == <<cpy, bench_results, add_meta_data, benchdate, lineno>>
net_vars == <<http, graphite, smtp>>

NoMeta == [hostname |-> <<>>, branch |-> <<>>, CPU |-> <<>>, date |-> <<>>, warnings |-> <<>>]

Init ==
    /\ pc = "import"
    /\ error = ""
    /\ config \in Configs
    /\ results_csv \in Files
    /\ lineno = 0
    /\ cpy = FALSE
    /\ bench_results = <<>>
    /\ add_meta_data = <<>>
    /\ benchdate = NoDate
    /\ meta_data = NoMeta
    /\ description = <<>>
    /\ all_gists = <<>>
    /\ master_gist = NoGist
    /\ last_results = <<>>
    /\ df_current_results = NoFrame
    /\ http = <<>>
    /\ graphite = <<>>
    /\ smtp = <<>>
    /\ stdout = <<>>

\* the name is bound in config.py
Defined(n) == n \in DOMAIN config

\* the run ends on an exception nothing handles
Raise(e) == pc' = "exit" /\ error' = e

(***************************************************************************)
(* The steps of the script                                                 *)
(***************************************************************************)
\* from config import *, and the check of GIST_API_TOKEN
ImportConfig ==
    /\ pc = "import"
    /\ IF Defined("GIST_API_TOKEN") /\ config["GIST_API_TOKEN"] # <<>>
       THEN /\ pc' = "main"
            /\ UNCHANGED <<error, stdout>>
       ELSE /\ Raise("SystemExit")
            /\ stdout' = stdout \o
                 (IF Defined("GIST_API_TOKEN") THEN <<"GIST API TOKEN NOT SET!">> ELSE <<>>)
                 \o <<"import_error_msg">>
    /\ UNCHANGED <<config, results_csv, parse_vars, meta_data, description, all_gists,
                   master_gist, last_results, df_current_results, net_vars>>

\* main() up to the for loop: the Gist object and the empty strings
MainBegin ==
    /\ pc = "main"
    /\ IF Defined("GIST_USER")
       THEN pc' = "read" /\ UNCHANGED error
       ELSE Raise("NameError")
    /\ bench_results' = <<>>
    /\ add_meta_data' = <<>>
    /\ cpy' = FALSE
    /\ UNCHANGED <<config, results_csv, lineno, benchdate, meta_data, description, all_gists,
                   master_gist, last_results, df_current_results, net_vars, stdout>>

\* a parser that takes only the five-column header line for the header
IsHeaderWholeLine(line) == line = HeaderLine
\* the line starts the table
IsHeader(line) == StartsWith(line, HeaderPrefix)

\* one pass of the for loop over the lines of results.csv
ReadLine ==
    /\ pc = "read"
    /\ lineno < Len(results_csv)
    /\ LET line == results_csv[lineno + 1]
           copy == cpy \/ IsHeader(line)
           date == Strptime(Strip(line))
       IN  /\ lineno' = lineno + 1
           /\ cpy' = copy
           /\ bench_results' = IF copy THEN bench_results \o line ELSE bench_results
           /\ add_meta_data' = IF copy THEN add_meta_data ELSE add_meta_data \o line
           /\ IF ~copy /\ StartsWith(line, DatePrefix)
              THEN IF date = NoDate
                   THEN Raise("ValueError") /\ UNCHANGED <<benchdate, stdout>>
                   ELSE /\ benchdate' = date
                        /\ stdout' = Append(stdout, "The date is: ")
                        /\ UNCHANGED <<pc, error>>
              ELSE UNCHANGED <<pc, error, benchdate, stdout>>
    /\ UNCHANGED <<config, results_csv, meta_data, description, all_gists, master_gist,
                   last_results, df_current_results, net_vars>>

\* a request to the gist API and the status of its response
Request(method, op, id, descr, files, content, meta, status) ==
    [method |-> method, op |-> op, id |-> id, description |-> descr, files |-> files,
     content |-> content, meta |-> meta, status |-> status]

\* get_meta_info(add_meta_data): the report text and the description of the gist
\* (the banner, the commit hash and /proc/cpuinfo are text of the machine)
GetMetaInfo ==
    /\ pc = "read"
    /\ lineno = Len(results_csv)
    /\ \E branch \in Branches :
         LET lines == Split(add_meta_data, "\n")
         IN  IF Len(lines) < 2
             THEN Raise("IndexError") /\ UNCHANGED <<meta_data, description>>
             ELSE /\ meta_data' = [hostname |-> config["HOSTNAME"],
                                   branch |-> branch,
                                   CPU |-> Strip(lines[1]),
                                   date |-> Strip(lines[2]),
                                   warnings |-> add_meta_data]
                  /\ description' = config["HOSTNAME"] \o <<"_">> \o branch
                  /\ pc' = "list"
                  /\ UNCHANGED error
    /\ UNCHANGED <<config, results_csv, parse_vars, all_gists, master_gist, last_results,
                   df_current_results, net_vars, stdout>>

\* a search without the break: the last matching gist wins
LastWithPrefix(gists, prefix) ==
    IF \E i \in 1..Len(gists) : StartsWith(gists[i].description, prefix)
    THEN gists[CHOOSE i \in 1..Len(gists) :
                 /\ StartsWith(gists[i].description, prefix)
                 /\ \A j \in (i + 1)..Len(gists) : ~StartsWith(gists[j].description, prefix)]
    ELSE NoGist

\* the first gist of the list whose description starts with prefix, NoGist if none
FirstWithPrefix(gists, prefix) ==
    IF \E i \in 1..Len(gists) : StartsWith(gists[i].description, prefix)
    THEN gists[CHOOSE i \in 1..Len(gists) :
                 /\ StartsWith(gists[i].description, prefix)
                 /\ \A j \in 1..(i - 1) : ~StartsWith(gists[j].description, prefix)]
    ELSE NoGist

\* gist.list() and the search for the gist of the master branch
ListGists ==
    /\ pc = "list"
    /\ \E l \in Listings :
         /\ all_gists' = l
         /\ master_gist' = FirstWithPrefix(l, config["HOSTNAME"] \o <<"_">> \o MASTER)
    /\ http' = Append(http, Request("GET", "list", 0, <<>>, {}, <<>>, NoMeta, 200))
    /\ pc' = "compare"
    /\ UNCHANGED <<error, config, results_csv, parse_vars, meta_data, description,
                   last_results, df_current_results, graphite, smtp, stdout>>

\* a comparison that takes a baseline it cannot read for an empty one
CanCompareCurrent(cur, last) ==
    /\ cur.ok
    /\ HasCol(cur, S_cpu_time) /\ IsNumericCol(cur, S_cpu_time)
    /\ cur.rows # <<>>
    /\ HasCol(cur, S_time_unit)

\* the comparison can be computed: both tables have a numeric cpu_time column,
\* the baseline has no repeated key, and time_unit is a column of current
CanCompare(cur, last) ==
    /\ cur.ok /\ last.ok
    /\ HasCol(cur, S_cpu_time) /\ HasCol(last, S_cpu_time)
    /\ IsNumericCol(cur, S_cpu_time) /\ IsNumericCol(last, S_cpu_time)
    /\ \A i \in 1..Len(last.rows) : ~Duplicated(last)[i]
    /\ cur.rows # <<>> \/ last.rows = <<>>
    /\ HasCol(cur, S_time_unit)

\* the frame the comparison leaves in df_current_results
Compared(cur, last) == PlaceDifference(AddDifference(cur, last))

\* the comparison with the gist of the master branch
Compare ==
    /\ pc = "compare"
    /\ IF master_gist = NoGist
       THEN \* print(df_current_results[['cpu_time']]) of an unbound name
            /\ Raise("NameError")
            /\ stdout' = Append(stdout, "RESULTS")
            /\ UNCHANGED <<bench_results, df_current_results, http, last_results>>
       ELSE \E text \in BaselineTexts, read \in {ReadCsv(bench_results)} :
              \E cur \in {DropDuplicates(read)}, last \in {ReadCsv(text)} :
                LET warn == IF \E i \in 1..Len(read.rows) : Duplicated(read)[i]
                            THEN <<"Warning duplicate benchmarks: ">> ELSE <<>>
                IN  /\ http' = Append(http, Request("GET", "by_id", master_gist.id,
                                                    <<>>, {}, <<>>, NoMeta, 200))
                    /\ last_results' = text
                    /\ IF CanCompare(cur, last)
                       THEN /\ df_current_results' = Compared(cur, last)
                            /\ bench_results' = ToCsv(df_current_results')
                            /\ stdout' = stdout \o warn \o <<"RESULTS">>
                            /\ pc' = "publish"
                            /\ UNCHANGED error
                       ELSE /\ Raise("PandasError")
                            /\ df_current_results' = IF read.ok THEN cur ELSE NoFrame
                            /\ stdout' = stdout \o (IF read.ok THEN warn ELSE <<>>)
                            /\ UNCHANGED bench_results
    /\ UNCHANGED <<config, results_csv, cpy, add_meta_data, benchdate, lineno, meta_data,
                   description, all_gists, master_gist, graphite, smtp>>

FileNames == {"bench_results.csv", "meta_data.txt"}

\* a create that accepts what edit accepts
CreateReturnsBelow300(status) == status < 300
\* Gist.create returns the response
CreateReturns(status) == status = 201
\* Gist.edit returns the response
EditReturns(status) == status < 300

\* the gist of this host and branch is edited, or created when there is none
Publish ==
    /\ pc = "publish"
    /\ \E status \in Statuses :
         LET update_gist == FirstWithPrefix(all_gists, description)
         IN  IF update_gist # NoGist
             THEN /\ http' = Append(http, Request("PATCH", "edit", update_gist.id, <<>>,
                                      FileNames, bench_results, meta_data, status))
                  /\ IF EditReturns(status)
                     THEN pc' = "graphite" /\ UNCHANGED error
                     ELSE Raise("Exception")
             ELSE /\ http' = Append(http, Request("POST", "create", 0, description,
                                      FileNames, bench_results, meta_data, status))
                  /\ IF CreateReturns(status)
                     THEN pc' = "graphite" /\ UNCHANGED error
                     ELSE Raise("Exception")
    /\ UNCHANGED <<config, results_csv, parse_vars, meta_data, description, all_gists,
                   master_gist, last_results, df_current_results, graphite, smtp, stdout>>

\* the metric name send_graphite derives from the name of a row:
\* idx = name.find('_'); if idx: name[idx] = '.'   (name[-1] is the last character)
MetricName(name) ==
    LET idx == Find(name, "_")
    IN  IF idx # 0
        THEN [name EXCEPT ![IF idx < 0 THEN Len(name) + 1 + idx ELSE idx + 1] = "."]
        ELSE name

\* g.send(name, row['cpu_time'], timestamp=benchdate.timestamp()) of row i
Send(df, i, date, ok) ==
    [op |-> "send", name |-> MetricName(df.rows[i].name),
     value |-> Cell(df, df.rows[i], S_cpu_time), timestamp |-> Timestamp(date), ok |-> ok]
Connect(ok) == [op |-> "init", name |-> <<>>, value |-> NaN, timestamp |-> 0, ok |-> ok]

\* the requests of send_graphite when request number fail raises (0 is
\* graphitesend.init, i the send of row i), all of them when fail is beyond the rows
GraphiteRequests(df, date, fail) ==
    LET n == Len(df.rows)
        last == IF fail > n THEN n ELSE fail
    IN  <<Connect(fail # 0)>> \o [i \in 1..last |-> Send(df, i, date, i # fail)]

\* if GRAPHITE_SERVER: send_graphite(df_current_results, benchdate)
Graphite ==
    /\ pc = "graphite"
    /\ IF ~Defined("GRAPHITE_SERVER")
       THEN Raise("NameError") /\ UNCHANGED <<graphite, stdout>>
       ELSE IF config["GRAPHITE_SERVER"] = <<>>
       THEN pc' = "email" /\ UNCHANGED <<error, graphite, stdout>>
       ELSE IF benchdate = NoDate
       THEN \* benchdate is unbound when no line of the metadata starts with "20"
            /\ Raise("NameError")
            /\ stdout' = Append(stdout, "SENDING TO GRAPHITE")
            /\ UNCHANGED graphite
       ELSE \E fail \in 0..(Len(df_current_results.rows) + 1) :
              /\ graphite' = graphite \o GraphiteRequests(df_current_results, benchdate, fail)
              /\ stdout' = stdout \o <<"SENDING TO GRAPHITE">> \o
                   (IF fail <= Len(df_current_results.rows)
                    THEN <<"WARNING: Couldn't send data to Graphite!">> ELSE <<>>)
              /\ pc' = "email"
              /\ UNCHANGED error
    /\ UNCHANGED <<config, results_csv, parse_vars, meta_data, description, all_gists,
                   master_gist, last_results, df_current_results, http, smtp>>

MailColumns == <<<<"i","t","e","r","a","t","i","o","n","s">>, <<"r","e","a","l","_","t","i","m","e">>,
                 S_cpu_time, S_difference_master, S_time_unit>>

\* an SMTP session: the recipient, the plain text, and whether sendmail was reached
Session(recipient, plain, sent) == [recipient |-> recipient, plain |-> plain, sent |-> sent]

\* the report is rendered and send_mail sends it
Email ==
    /\ pc = "email"
    /\ LET plain == ToCsv(SelectColumns(df_current_results, MailColumns))
       IN  IF ~(Defined("MAIL_RECEIVER") /\ Defined("MAIL_SENDER") /\ Defined("SMTP_SERVER"))
           THEN Raise("NameError") /\ UNCHANGED smtp
           ELSE IF ~Defined("SMTP_PASSWORD")
           THEN \* the session is open and started when login needs the password
                /\ Raise("NameError")
                /\ smtp' = Append(smtp, Session(config["MAIL_RECEIVER"], plain, FALSE))
           ELSE \E sent \in BOOLEAN :
                  /\ smtp' = Append(smtp, Session(config["MAIL_RECEIVER"], plain, sent))
                  /\ IF sent THEN pc' = "done" /\ UNCHANGED error
                     ELSE Raise("SMTPException")
    /\ stdout' = Append(stdout, "SENDING EMAIL")
    /\ UNCHANGED <<config, results_csv, parse_vars, meta_data, description, all_gists,
                   master_gist, last_results, df_current_results, http, graphite>>

Next ==
    \/ ImportConfig
    \/ MainBegin
    \/ ReadLine
    \/ GetMetaInfo
    \/ ListGists
    \/ Compare
    \/ Publish
    \/ Graphite
    \/ Email

Spec == Init /\ [][Next]_vars

(***************************************************************************)
(* Vocabulary of the properties                                            *)
(***************************************************************************)
Min(a, b) == IF a < b THEN a ELSE b

\* the index of the first line with property P, one past the end when none has it
FirstLine(lines, P(_)) ==
    IF \E i \in 1..Len(lines) : P(lines[i])
    THEN CHOOSE i \in 1..Len(lines) : P(lines[i]) /\ \A j \in 1..(i - 1) : ~P(lines[j])
    ELSE Len(lines) + 1

\* the line begins with name,iterations,real_time,cpu_time
HasHeaderPrefix(line) == StartsWith(line, HeaderPrefix)
\* the line is the header itself: the prefix, then nothing or further columns
IsExactHeader(line) ==
    \/ Strip(line) = HeaderPrefix
    \/ StartsWith(Strip(line), HeaderPrefix \o <<",">>)

\* the run is between the start of the for loop and the end of the comparison
InParse == pc \in {"read", "list", "compare"}

\* the requests that write a gist
IsWrite(r) == r.op \in {"create", "edit"}
Writes == SelectSeq(http, IsWrite)
\* no gist was written, no metric pushed, no mail session opened
NothingPublished == Writes = <<>> /\ graphite = <<>> /\ smtp = <<>>
NoNetwork == http = <<>> /\ graphite = <<>> /\ smtp = <<>>

\* the text is split at line k: what the loop has read of the lines before k is
\* the metadata, what it has read from k on is the table, and the loop copies
\* exactly when it is past k
SplitAt(k) ==
    /\ add_meta_data = Concat(SubSeq(results_csv, 1, Min(k - 1, lineno)))
    /\ bench_results = Concat(SubSeq(results_csv, k, lineno))
    /\ cpy <=> k <= lineno

(***************************************************************************)
(* C4, as stated: with k the first line that exactly matches the header,   *)
(* the metadata is lines [0,k) and the table is lines [k,end), and the     *)
(* parser never leaves table mode.  Fails: the code switches at the first  *)
(* line that merely starts with name,iterations,real_time,cpu_time.        *)
(***************************************************************************)
C4_SplitAtExactHeader ==
    InParse => SplitAt(FirstLine(results_csv, IsExactHeader))

(***************************************************************************)
(* C4, amended: with k the first line that starts with                     *)
(* name,iterations,real_time,cpu_time, at every point of the loop the      *)
(* metadata is the concatenation of the lines read before k and the table  *)
(* that of the lines read from k on (header included, order kept, each     *)
(* line in exactly one of the two); table mode holds exactly when line k   *)
(* has been read, so it is never left; without such a line everything is   *)
(* metadata and the table is empty.                                        *)
(***************************************************************************)
C4_SplitAtHeaderPrefix ==
    InParse => SplitAt(FirstLine(results_csv, HasHeaderPrefix))

\* a whole file was split at a line that is not the exact header, with a
\* line before it and a header line after it
C4_Witness ==
    /\ pc = "list"
    /\ Len(results_csv) = 3
    /\ FirstLine(results_csv, HasHeaderPrefix) = 2
    /\ ~IsExactHeader(results_csv[2])
    /\ HasHeaderPrefix(results_csv[3])
    /\ add_meta_data = results_csv[1]
    /\ bench_results = results_csv[2] \o results_csv[3]

\* a line of the metadata that starts with "20" and is no YYYY-MM-DD HH:MM:SS
IsMalformedDate(line) == StartsWith(line, DatePrefix) /\ Strptime(Strip(line)) = NoDate
HeaderIndex == FirstLine(results_csv, HasHeaderPrefix)
MalformedDateInMetadata ==
    \E i \in 1..(HeaderIndex - 1) : IsMalformedDate(results_csv[i])
HeaderMissing == HeaderIndex = Len(results_csv) + 1
\* the rows of the table of results.csv: the lines after the header line
TableLines == SubSeq(results_csv, HeaderIndex + 1, Len(results_csv))
\* the table is the header and rows of benchmarks
TableWellFormed ==
    /\ ~HeaderMissing
    /\ results_csv[HeaderIndex] = HeaderLine
    /\ \A i \in 1..Len(TableLines) : TableLines[i] \in BenchRows
\* the baseline gist was fetched
BaselineFetched == \E i \in 1..Len(http) : http[i].op = "by_id"
BaselineUnparsable == BaselineFetched /\ ~ReadCsv(last_results).ok

(***************************************************************************)
(* C6: a run whose metadata has a line starting with "20" that is no       *)
(* YYYY-MM-DD HH:MM:SS, or whose input has no header line, or whose        *)
(* baseline CSV cannot be parsed, never calls Gist.create or Gist.edit,    *)
(* never pushes a metric and never opens a mail session.                   *)
(***************************************************************************)
C6_ParseErrorPublishesNothing ==
    ~NothingPublished =>
        ~(MalformedDateInMetadata \/ HeaderMissing \/ BaselineUnparsable)

\* the run has ended on the baseline it could not parse, its own table being
\* a table with rows
C6_Witness ==
    /\ pc = "exit"
    /\ BaselineUnparsable
    /\ ~HeaderMissing /\ ~MalformedDateInMetadata
    /\ df_current_results.ok /\ df_current_results.rows # <<>>

(***************************************************************************)
(* C1, as stated: when no listed gist has a description starting with      *)
(* "{host}_master" and results.csv holds a well-formed table, the run does *)
(* not end before publishing, what it publishes is the table of            *)
(* results.csv unchanged, and there is no difference_master column.        *)
(* Fails: the else branch prints df_current_results, which is bound only   *)
(* in the if branch.                                                       *)
(***************************************************************************)
C1_NoBaselinePassThrough ==
    (master_gist = NoGist /\ http # <<>> /\ pc # "compare" /\ TableWellFormed) =>
        /\ pc = "exit" => Writes # <<>>
        /\ bench_results = Concat(SubSeq(results_csv, HeaderIndex, Len(results_csv)))
        /\ ~HasCol(df_current_results, S_difference_master)

(***************************************************************************)
(* C7, as stated: when a required setting is absent the process stops      *)
(* before any request to the gist API, the Graphite server or the SMTP     *)
(* server.  Fails: only GIST_API_TOKEN is checked at import; the other     *)
(* names raise NameError where they are first used.                        *)
(***************************************************************************)
C7_ConfigErrorBeforeNetwork ==
    (\E n \in RequiredSettings : ~Defined(n)) => NoNetwork

\* the gist write returned
PublishReturned == Writes # <<>> /\ error # "Exception"
\* the step that sends the mail was entered
EmailReached == \E i \in 1..Len(stdout) : stdout[i] = "SENDING EMAIL"

(***************************************************************************)
(* C8, as stated: after a successful publish of a well-formed table, with  *)
(* a metrics server configured, no failure of the metrics step ends the    *)
(* run: a run that ends has gone on to the e-mail step.  Fails: benchdate  *)
(* is unbound when no metadata line starts with "20", and the call of      *)
(* send_graphite raises outside its try block.                             *)
(***************************************************************************)
C8_MetricsFailureRecoverable ==
    (/\ PublishReturned /\ TableWellFormed
     /\ Defined("GRAPHITE_SERVER") /\ config["GRAPHITE_SERVER"] # <<>>
     /\ pc = "exit") => EmailReached

(***************************************************************************)
(* C9, as stated: the gist write raises exactly when the status is not     *)
(* 2xx/3xx, and a run it raises in pushes no metric and sends no mail.     *)
(* Fails: create returns only on 201, edit on every status below 300.      *)
(***************************************************************************)
C9_RaisesOutside2xx3xx ==
    Writes # <<>> =>
        /\ error = "Exception" <=> ~(Writes[1].status >= 200 /\ Writes[1].status < 400)
        /\ error = "Exception" => pc = "exit" /\ graphite = <<>> /\ smtp = <<>>

(***************************************************************************)
(* C9, amended: Gist.create raises exactly when the status is not 201 and  *)
(* Gist.edit exactly when the status is 300 or more; each returns          *)
(* otherwise; a run the error is raised in ends with no metrics push and   *)
(* no e-mail.                                                              *)
(***************************************************************************)
C9_RaisesPerOperation ==
    Writes # <<>> =>
        /\ error = "Exception" <=>
             \/ Writes[1].op = "create" /\ Writes[1].status # 201
             \/ Writes[1].op = "edit" /\ Writes[1].status >= 300
        /\ error = "Exception" => pc = "exit" /\ graphite = <<>> /\ smtp = <<>>

\* a create answered 200 has raised and ended the run
C9_Witness ==
    /\ Writes # <<>>
    /\ Writes[1].op = "create" /\ Writes[1].status = 200
    /\ pc = "exit" /\ error = "Exception"

\* the key with its first underscore replaced by a dot, the key when it has none
ReplaceFirstUnderscore(key) ==
    IF \E i \in 1..Len(key) : key[i] = "_"
    THEN [key EXCEPT ![CHOOSE i \in 1..Len(key) :
                         key[i] = "_" /\ \A j \in 1..(i - 1) : key[j] # "_"] = "."]
    ELSE key

(***************************************************************************)
(* C10, as stated: the sends follow the connection in row order, one per   *)
(* row, each named by the key with its first underscore replaced by '.'    *)
(* (also at position 0; a key without underscore unchanged), with the      *)
(* cpu_time of the row and the timestamp of benchdate.  Fails: `if idx:`   *)
(* skips an underscore at position 0 and takes the -1 of find for the      *)
(* last character.                                                         *)
(***************************************************************************)
C10_MetricNameDerivation ==
    /\ \A i \in 2..Len(graphite) :
         /\ graphite[i].op = "send"
         /\ graphite[i].name = ReplaceFirstUnderscore(df_current_results.rows[i - 1].name)
         /\ graphite[i].value = Cell(df_current_results, df_current_results.rows[i - 1], S_cpu_time)
         /\ graphite[i].timestamp = Timestamp(benchdate)
    /\ (graphite # <<>> /\ \A i \in 1..Len(graphite) : graphite[i].ok)
         => Len(graphite) = Len(df_current_results.rows) + 1

\* the description main() computes: "{hostname}_{branch}"
HostBranch == meta_data.hostname \o <<"_">> \o meta_data.branch
\* the places in the list of the gists whose description starts with it
Matching == {i \in 1..Len(all_gists) : StartsWith(all_gists[i].description, HostBranch)}

(***************************************************************************)
(* C5: a run issues at most one gist write, and exactly one once it is     *)
(* past the publish step: an edit of the first listed gist whose           *)
(* description starts with "{host}_{branch}" if there is one, else a       *)
(* create with that description; the files written are bench_results.csv   *)
(* and meta_data.txt, holding bench_results and meta_data.                 *)
(***************************************************************************)
C5_UpsertByDescriptionPrefix ==
    /\ Len(Writes) <= 1
    /\ (pc \in {"graphite", "email", "done"} \/ error = "Exception") => Len(Writes) = 1
    /\ Writes # <<>> =>
         /\ Writes[1].files = {"bench_results.csv", "meta_data.txt"}
         /\ Writes[1].content = bench_results /\ Writes[1].meta = meta_data
         /\ IF Matching # {}
            THEN /\ Writes[1].op = "edit"
                 /\ Writes[1].id = all_gists[CHOOSE i \in Matching : \A j \in Matching : i <= j].id
            ELSE /\ Writes[1].op = "create"
                 /\ Writes[1].description = HostBranch

\* two listed gists match and the first of them was edited
C5_Witness ==
    /\ Writes # <<>>
    /\ Cardinality(Matching) = 2
    /\ Writes[1].op = "edit" /\ Writes[1].id = 1

\* the fields of the lines of a table, line by line, the first of a line its key
Fields(line) == Split(RStrip(line), ",")
Table(lines) == [i \in 1..Len(lines) |-> Fields(lines[i])] \o <<>>
\* the rows of the baseline table: the non-blank lines after its first
BaselineLines ==
    LET ls == SelectLines(Split(last_results, "\n"))
    IN  IF ls = <<>> THEN <<>> ELSE Tail(ls)
InTable(t, key) == \E i \in 1..Len(t) : t[i][1] = key
\* the place of the first line of the table with the key
FirstWithKey(t, key) ==
    CHOOSE i \in 1..Len(t) : t[i][1] = key /\ \A j \in 1..(i - 1) : t[j][1] # key
\* the cpu_time the table has for the key, a whole number in every baseline
\* of the model
CpuOf(t, key) == DecVal(t[FirstWithKey(t, key)][4])
\* the value read_csv gives field j of a line, NaN beyond its last field
FieldValue(fs, j) == IF j <= Len(fs) THEN ParseCell(fs[j]) ELSE NaN
\* the comparison was computed
IsCompared == HasCol(df_current_results, S_difference_master)
\* two rows of the table share a key
HasDuplicateKeys(t) == \E i, j \in 1..Len(t) : i < j /\ t[i][1] = t[j][1]
\* the baseline is a table with the header and no key twice
BaselineWellFormed(base) ==
    /\ StartsWith(last_results, HeaderLine)
    /\ \A i \in 1..Len(base) : Len(base[i]) = 5 /\ IsNumeral(base[i][4])
    /\ ~HasDuplicateKeys(base)

(***************************************************************************)
(* C2: once the comparison is computed, every row of df_current_results    *)
(* whose key is in the baseline has difference_master = (c - b) / b, c its *)
(* cpu_time and b that of the baseline (no number when c is none); every   *)
(* row whose key is not in the baseline has NaN; every row has the key of  *)
(* a row of results.csv, so a key only the baseline has adds no row; and   *)
(* a comparison of well-formed tables in which current has a key the       *)
(* baseline lacks does not fail.                                           *)
(***************************************************************************)
C2_RelativeChange ==
    BaselineFetched =>
        \A cur \in {Table(TableLines)}, base \in {Table(BaselineLines)} :
            /\ (/\ pc # "compare" /\ TableWellFormed /\ BaselineWellFormed(base)
                /\ \E j \in 1..Len(cur) : ~InTable(base, cur[j][1]))
                 => IsCompared /\ error # "PandasError"
            /\ IsCompared =>
                 \A i \in 1..Len(df_current_results.rows) :
                    LET r  == df_current_results.rows[i]
                        c  == Cell(df_current_results, r, S_cpu_time)
                        rc == Cell(df_current_results, r, S_difference_master)
                    IN  /\ InTable(cur, r.name)
                        /\ IF ~InTable(base, r.name)
                           THEN rc = NaN
                           ELSE IF c.k = "num" /\ CpuOf(base, r.name) # 0
                           THEN /\ rc.k = "num" /\ rc.d > 0
                                /\ rc.n * c.d * CpuOf(base, r.name)
                                     = (c.n - CpuOf(base, r.name) * c.d) * rc.d
                           ELSE rc.k # "num"

\* baseline 100 and current 120 give 1/5; a key the baseline lacks has NaN;
\* the baseline has a key that is no row; the run went through
C2_Witness ==
    /\ IsCompared
    /\ pc = "done"
    /\ \E base \in {Table(BaselineLines)} :
        /\ \E i \in 1..Len(df_current_results.rows) :
             LET r == df_current_results.rows[i]
             IN  /\ InTable(base, r.name) /\ CpuOf(base, r.name) = 100
                 /\ Cell(df_current_results, r, S_cpu_time) = Num(120, 1)
                 /\ Cell(df_current_results, r, S_difference_master) = Num(1, 5)
        /\ \E i \in 1..Len(df_current_results.rows) :
             LET r == df_current_results.rows[i]
             IN  /\ ~InTable(base, r.name)
                 /\ Cell(df_current_results, r, S_cpu_time).k = "num"
                 /\ Cell(df_current_results, r, S_difference_master) = NaN
        /\ \E j \in 1..Len(base) : ~HasKey(df_current_results, base[j][1])

\* df_current_results has exactly one row per key of the table, holding the
\* fields of the first line with that key, the rows in the order of those first
\* lines, and deduplicating it again changes nothing
KeepsFirst(cur) ==
    /\ df_current_results.ok
    /\ \A i \in 1..Len(cur) : HasKey(df_current_results, cur[i][1])
    /\ \A i \in 1..Len(df_current_results.rows) :
         LET r == df_current_results.rows[i]
         IN  /\ InTable(cur, r.name)
             /\ \A j \in 1..Len(Fields(results_csv[HeaderIndex])) - 1 :
                  Cell(df_current_results, r, Fields(results_csv[HeaderIndex])[j + 1])
                    = FieldValue(cur[FirstWithKey(cur, r.name)], j + 1)
             /\ \A k \in 1..(i - 1) :
                  FirstWithKey(cur, df_current_results.rows[k].name) < FirstWithKey(cur, r.name)
    /\ DropDuplicates(df_current_results) = df_current_results
\* the gists are listed and the comparison step is over
ComparisonOver == http # <<>> /\ pc # "compare"

(***************************************************************************)
(* C3: whenever a table with duplicate keys has been through the           *)
(* comparison step, with a well-formed baseline or with none, the result   *)
(* has one row per key, the first occurrence, the rows in their order, the *)
(* deduplication is idempotent, and the run did not fail in that step: it  *)
(* is at, or past, the publish step.  Fails: without a master gist the     *)
(* table is never read nor deduplicated and the step raises NameError.     *)
(* With a baseline both conjuncts hold.                                    *)
(***************************************************************************)
C3_DuplicatesRecoverable ==
    ComparisonOver =>
        \A cur \in {Table(TableLines)} :
            /\ df_current_results.ok => KeepsFirst(cur)
            /\ (/\ TableWellFormed /\ HasDuplicateKeys(cur)
                /\ BaselineFetched => BaselineWellFormed(Table(BaselineLines)))
                 => /\ KeepsFirst(cur)
                    /\ pc = "exit" => Writes # <<>>

=============================================================================
